---- MODULE Spec2Model ----
(***************************************************************************)
(* The ENS faucet worker: a JSON-RPC request handler that pays a fixed     *)
(* amount of testnet currency once per interval to addresses that own a    *)
(* name.  Two handlers are modelled: the multi-network handler of          *)
(* src/src/index.ts and the single-network handler kept in                 *)
(* src/src/helpers.ts (lines 141-300).  Each handler invocation is a       *)
(* frame of local variables that advances one awaited call at a time; the  *)
(* Claim Ledger (USED_ADDRESS_KV) and the clock are shared.                *)
(*                                                                         *)
(* Strings the code converts or inspects (addresses, ledger keys, ledger   *)
(* values, hex quantities) are sequences of one-character strings.         *)
(* Quantities are scaled so that they fit 32-bit integers: one             *)
(* claim-amount unit is 0.25 ETH, and the claim intervals are 1000 * k     *)
(* milliseconds for small k.                                               *)
(***************************************************************************)
EXTENDS Integers, Sequences, FiniteSets, TLC

VARIABLES h, ledger, now

vars == <<h, ledger, now>>

(***************************************************************************)
(* Bounds of the model.                                                    *)
(***************************************************************************)
\* Date.now() at the first request, in milliseconds
StartTime == 1000
\* the clock stops advancing here
MaxTime == 3001
\* number of hex digits of an account address (40 in the code)
HexLen == 2
\* relayer balances range over 0..MaxBalance claim-amount units
MaxBalance == 2

\* milliseconds per second: the ledger's TTL is in seconds
MsPerSecond == 1000

(***************************************************************************)
(* Characters and conversions.                                             *)
(***************************************************************************)
DecDigits == <<"0", "1", "2", "3", "4", "5", "6", "7", "8", "9">>
LowerHex == <<"0", "1", "2", "3", "4", "5", "6", "7", "8", "9",
              "a", "b", "c", "d", "e", "f">>
UpperHex == <<"0", "1", "2", "3", "4", "5", "6", "7", "8", "9",
              "A", "B", "C", "D", "E", "F">>

Range(s) == {s[i] : i \in DOMAIN s}
HexChars == Range(LowerHex) \cup Range(UpperHex)

IndexOf(c, s) == CHOOSE i \in DOMAIN s : s[i] = c

\* value of one hexadecimal digit, either case
HexVal(c) == IF c \in Range(LowerHex) THEN IndexOf(c, LowerHex) - 1
             ELSE IF c \in Range(UpperHex) THEN IndexOf(c, UpperHex) - 1
             ELSE 0

toLowerCaseChar(c) == IF c \in Range(UpperHex) THEN LowerHex[IndexOf(c, UpperHex)] ELSE c
toUpperCaseChar(c) == IF c \in Range(LowerHex) THEN UpperHex[IndexOf(c, LowerHex)] ELSE c

\* String.prototype.toLowerCase
toLowerCase(s) == [i \in DOMAIN s |-> toLowerCaseChar(s[i])]

RECURSIVE Digits(_, _, _)
Digits(n, base, alphabet) ==
    IF n < base THEN <<alphabet[n + 1]>>
    ELSE Append(Digits(n \div base, base, alphabet), alphabet[(n % base) + 1])

\* Number.prototype.toString / Date.now().toString()
toString(n) == Digits(n, 10, DecDigits)

\* viem toHex of a bigint: "0x" and the lower-case hex digits
toHex(n) == <<"0", "x">> \o Digits(n, 16, LowerHex)

NaN == -1

RECURSIVE ParseDigits(_, _, _)
ParseDigits(s, i, acc) ==
    IF i > Len(s) \/ s[i] \notin Range(DecDigits) THEN acc
    ELSE ParseDigits(s, i + 1, acc * 10 + (IndexOf(s[i], DecDigits) - 1))

\* parseInt(s, 10): the leading decimal digits, NaN when there are none
parseInt(s) ==
    IF Len(s) = 0 \/ s[1] \notin Range(DecDigits) THEN NaN ELSE ParseDigits(s, 1, 0)

RECURSIVE ParseHex(_, _, _)
ParseHex(s, i, acc) ==
    IF i > Len(s) THEN acc ELSE ParseHex(s, i + 1, acc * 16 + HexVal(s[i]))

\* BigInt("0x...")
BigInt(s) == ParseHex(s, 3, 0)

(***************************************************************************)
(* Configuration.                                                          *)
(***************************************************************************)
SUPPORTED_METHODS == {"faucet_status", "faucet_getAddress", "faucet_request"}
SUPPORTED_NETWORKS == {"goerli", "sepolia"}

\* 1 week and 1 month in the code; 1000 * 1 and 1000 * 2 milliseconds here
CLAIM_INTERVAL_MAP == [goerli |-> MsPerSecond * 1, sepolia |-> MsPerSecond * 2]

\* 0.5 ETH and 0.25 ETH, in units of 0.25 ETH
CLAIM_AMOUNT_MAP == [goerli |-> 2, sepolia |-> 1]

(***************************************************************************)
(* Addresses.                                                              *)
(***************************************************************************)
\* the pattern without its closing anchor: /^0x[a-fA-F0-9]{40}/
isAddress_Unanchored(a) ==
    /\ Len(a) >= 2 + HexLen
    /\ a[1] = "0" /\ a[2] = "x"
    /\ \A i \in 3..(2 + HexLen) : a[i] \in HexChars

\* /^0x[a-fA-F0-9]{40}$/ with HexLen digits
isAddress(a) ==
    /\ Len(a) = 2 + HexLen
    /\ a[1] = "0" /\ a[2] = "x"
    /\ \A i \in 3..Len(a) : a[i] \in HexChars

\* stands for keccak256 of the lower-case hex digits: nibble i of the hash
RECURSIVE SumVals(_, _)
SumVals(s, i) == IF i > Len(s) THEN 0 ELSE HexVal(s[i]) + SumVals(s, i + 1)
HashNibble(lower, i) == (3 * SumVals(lower, 3) + 5 * (i - 2)) % 16

\* viem checksumAddress: a letter is upper-cased where the hash nibble is >= 8
checksumAddress(a) ==
    LET lower == toLowerCase(a)
    IN  [i \in DOMAIN a |->
            IF i >= 3 /\ HashNibble(lower, i) >= 8
            THEN toUpperCaseChar(lower[i]) ELSE lower[i]]

\* viem getAddress: throws on a malformed address (the caller tests isAddress)
getAddress(a) == checksumAddress(a)

Pad == [i \in 1..(HexLen - 2) |-> "1"]
Addr(c1, c2) == <<"0", "x", c1, c2>> \o Pad

\* the account ids for which the subgraph returns a domain
NameOwners == {Addr("a", "b")}

\* checkHasName: the account is looked up by its lower-cased address
checkHasName(address) == toLowerCase(address) \in NameOwners

(***************************************************************************)
(* Requests.                                                               *)
(***************************************************************************)
NotAnAddress == <<"n", "o", "t", "-", "a", "n">>

\* an address with one hex digit too many
TooLong == Addr("a", "b") \o <<"1">>

\* what a missing array element reads as when it is used as a string
UndefinedString == <<"u", "n", "d", "e", "f", "i", "n", "e", "d">>

\* body.params: missing or null (falsy), or an array of strings
NoParams == [truthy |-> FALSE, elems |-> <<>>]
ParamsSet == {NoParams} \cup
             {[truthy |-> TRUE, elems |-> e] :
                 e \in { <<>>, <<NotAnAddress>>, <<TooLong>>, <<Addr("a", "b")>>,
                         <<Addr("a", "B")>>, <<Addr("A", "b")>>,
                         <<Addr("1", "1")>> }}

\* request.json() failed: body is null
NullBody == [parsed |-> FALSE, jsonrpc |-> "", id |-> "null", method |-> "",
             params |-> NoParams]

Bodies == {NullBody} \cup
          [parsed  : {TRUE},
           jsonrpc : {"2.0", ""},
           id      : {"1"},
           method  : SUPPORTED_METHODS \cup {"eth_call"},
           params  : ParamsSet]

Requests == [method : {"POST", "OPTIONS", "GET"},
             paths  : {<<>>, <<"goerli">>, <<"sepolia">>, <<"mainnet">>},
             body   : Bodies]

\* body.params[0]
Param0(body) == IF Len(body.params.elems) > 0 THEN body.params.elems[1]
                ELSE UndefinedString

(***************************************************************************)
(* Responses (helpers.ts).                                                 *)
(***************************************************************************)
\* _makeResponse: a string body is sent as {message: body}; null is sent empty
makeResponse(body, status) ==
    [kind |-> "plain", status |-> status, body |-> body]

\* _makeRpcResponse: {jsonrpc: "2.0", ...body, id}; the status defaults to 200
makeRpcResponse(body, id, status) ==
    [kind |-> "rpc", status |-> status,
     body |-> [jsonrpc |-> "2.0", id |-> id, payload |-> body]]

RpcError(code, message) == [error |-> [code |-> code, message |-> message]]
RpcResult(result) == [result |-> result]

IsRpcError(r, message) ==
    /\ r.kind = "rpc"
    /\ "error" \in DOMAIN r.body.payload
    /\ r.body.payload.error = [code |-> -32000, message |-> message]

IsRpcResult(r) == r.kind = "rpc" /\ "result" \in DOMAIN r.body.payload

(***************************************************************************)
(* The Claim Ledger (USED_ADDRESS_KV): a set of entries, one per key.      *)
(***************************************************************************)
HasKey(l, key) == \E e \in l : e.key = key
Entry(l, key) == CHOOSE e \in l : e.key = key

\* KVNamespace.get: the stored string, or null (the empty string here)
KvGet(l, key) == IF HasKey(l, key) THEN Entry(l, key).value ELSE <<>>

NoExpiration == 0

\* KVNamespace.put with expirationTtl seconds (0: the entry never expires)
KvPut(l, key, value, expirationTtl, at) ==
    {e \in l : e.key # key} \cup
    {[key |-> key, value |-> value,
      expiration |-> IF expirationTtl = NoExpiration THEN NoExpiration
                     ELSE at + expirationTtl * MsPerSecond]}

(***************************************************************************)
(* Handler frames.                                                         *)
(***************************************************************************)
NoTransactionId == ""

Idle == [pc |-> "idle", network |-> "", body |-> NullBody,
         item |-> [address |-> <<>>, paused |-> FALSE], balance |-> 0,
         status |-> "", address |-> <<>>, key |-> <<>>,
         addressLastUsed |-> 0, lastUsedString |-> <<>>, hasClaimed |-> FALSE,
         hasName |-> FALSE, tx |-> [transactionId |-> NoTransactionId],
         response |-> makeResponse("", 0), calls |-> <<>>]

Return(f, response) == [f EXCEPT !.pc = "done", !.response = response]

Call(f, name) == [f EXCEPT !.calls = Append(@, name)]

RelayerAddress == Addr("f", "f")

Times == {t \in StartTime..MaxTime :
            (t - StartTime) % MsPerSecond \in {0, 1, MsPerSecond - 1}}

Procs == DOMAIN h

Init ==
    /\ h = [p \in {"h1"} |-> Idle]
    /\ ledger = {}
    /\ now = StartTime

\* the clock advances
Tick ==
    /\ \E t \in Times : t > now /\ now' = t
    /\ UNCHANGED <<h, ledger>>

\* the ledger drops an entry whose expiration has passed
Expire ==
    /\ \E e \in ledger :
          /\ e.expiration # NoExpiration
          /\ now >= e.expiration
          /\ ledger' = ledger \ {e}
    /\ UNCHANGED <<h, now>>

(***************************************************************************)
(* The multi-network handler (src/src/index.ts).                           *)
(***************************************************************************)
\* const key = `${network}/${address}`
LedgerKey(network, address) == <<network, "/">> \o address

\* the window closed one millisecond late: <= for <
HasClaimed_Inclusive(addressLastUsed, dateNow, claimInterval) ==
    addressLastUsed # 0 /\ dateNow - addressLastUsed <= claimInterval

\* hasClaimed = addressLastUsed && Date.now() - addressLastUsed < claimInterval
HasClaimed(addressLastUsed, dateNow, claimInterval) ==
    addressLastUsed # 0 /\ dateNow - addressLastUsed < claimInterval

\* the timestamp stored in seconds
Timestamp_Seconds(dateNow) == toString(dateNow \div MsPerSecond)

\* Date.now().toString()
Timestamp(dateNow) == toString(dateNow)

\* expirationTtl: Math.floor(claimInterval / 1000)
ExpirationTtl(claimInterval) == claimInterval \div MsPerSecond

\* if (item.paused) status = "paused"
StatusAfterRelayer(paused) == IF paused THEN "paused" ELSE "ok"

\* if (claimAmount > balance) status = "out of funds"
StatusAfterBalance(status, claimAmount, balance) ==
    IF claimAmount > balance THEN "out of funds" ELSE status

\* the result of returnStatus()
StatusResult(status, network) ==
    [status |-> status, amount |-> toHex(CLAIM_AMOUNT_MAP[network]),
     interval |-> CLAIM_INTERVAL_MAP[network]]

\* the faucet status tested before the address
Rejection_StatusFirst(hasClaimed, hasName, status) ==
    IF status # "ok" THEN "Faucet error: " \o status
    ELSE IF hasClaimed THEN "Address has already claimed"
    ELSE IF ~hasName THEN "Address does not own a name on mainnet"
    ELSE ""

\* the rejections of faucet_request, in the order of the code; "" when none
Rejection(hasClaimed, hasName, status) ==
    IF hasClaimed THEN "Address has already claimed"
    ELSE IF ~hasName THEN "Address does not own a name on mainnet"
    ELSE IF status # "ok" THEN "Faucet error: " \o status
    ELSE ""

\* the transaction id is not tested
TransactionFailed_Never(tx) == FALSE

\* if (!tx.transactionId)
TransactionFailed(tx) == tx.transactionId = NoTransactionId

\* lines 113-160: routing, framing and envelope checks, up to the relayer call
Receive(p, requests) ==
    /\ h[p].pc = "idle"
    /\ \E req \in requests :
        LET network == IF Len(req.paths) = 0 THEN "goerli"
                       ELSE IF req.paths[1] \in SUPPORTED_NETWORKS THEN req.paths[1]
                       ELSE ""
            body == req.body
            f == [h[p] EXCEPT !.network = network]
        IN  h' = [h EXCEPT ![p] =
                IF network = "" THEN Return(f, makeResponse("Not Found", 404))
                ELSE IF req.method = "OPTIONS" THEN Return(f, makeResponse("", 200))
                ELSE IF req.method # "POST"
                THEN Return(f, makeResponse("Unsupported method: " \o req.method, 405))
                ELSE IF ~body.parsed \/ body.jsonrpc = "" \/ body.method = ""
                        \/ ~body.params.truthy
                THEN Return([f EXCEPT !.body = body],
                            makeRpcResponse(RpcError(-32600, "Invalid Request"),
                                            body.id, 400))
                ELSE IF body.method \notin SUPPORTED_METHODS
                THEN Return([f EXCEPT !.body = body],
                            makeRpcResponse(RpcError(-32601, "Method not found"),
                                            body.id, 404))
                ELSE [f EXCEPT !.body = body, !.pc = "getRelayer"]]
    /\ UNCHANGED <<ledger, now>>

\* lines 161-180: relayer.getRelayer(), then the pause check; the value of
\* returnStatus() is dropped, so the handler goes on whatever the method is
GetRelayer(p) ==
    /\ h[p].pc = "getRelayer"
    /\ \E paused \in BOOLEAN :
        h' = [h EXCEPT ![p] =
                [Call(@, "getRelayer") EXCEPT
                    !.item = [address |-> RelayerAddress, paused |-> paused],
                    !.status = StatusAfterRelayer(paused),
                    !.pc = "getBalance"]]
    /\ UNCHANGED <<ledger, now>>

\* lines 182-207: eth_getBalance, the funds check (returnStatus() dropped
\* again, twice), then getAddress(body.params[0]) and the ledger key
GetBalance(p) ==
    /\ h[p].pc = "getBalance"
    /\ \E funds \in 0..MaxBalance :
        LET f == h[p]
            balanceResponse == [result |-> toHex(funds)]
            balance == BigInt(balanceResponse.result)
            status == StatusAfterBalance(f.status, CLAIM_AMOUNT_MAP[f.network], balance)
            g == [Call(f, "eth_getBalance") EXCEPT !.balance = balance, !.status = status]
            param == Param0(f.body)
        IN  h' = [h EXCEPT ![p] =
                IF ~isAddress(param)
                THEN Return(g, makeRpcResponse(RpcError(-32000, "Invalid address"),
                                               f.body.id, 400))
                ELSE [g EXCEPT !.address = getAddress(param),
                               !.key = LedgerKey(f.network, getAddress(param)),
                               !.pc = "kvGet"]]
    /\ UNCHANGED <<ledger, now>>

\* lines 209-215: USED_ADDRESS_KV.get(key), parseInt, and hasClaimed
LedgerGet(p) ==
    /\ h[p].pc = "kvGet"
    /\ LET f == h[p]
           v == KvGet(ledger, f.key)
           addressLastUsed == IF v # <<>> THEN parseInt(v) ELSE 0
       IN  h' = [h EXCEPT ![p] =
               [Call(f, "kv.get") EXCEPT
                   !.lastUsedString = v,
                   !.addressLastUsed = addressLastUsed,
                   !.hasClaimed = HasClaimed(addressLastUsed, now,
                                             CLAIM_INTERVAL_MAP[f.network]),
                   !.pc = "checkHasName"]]
    /\ UNCHANGED <<ledger, now>>

\* lines 217-277: checkHasName(address), then the faucet_getAddress answer
\* or the rejections of the claim path
CheckHasName(p) ==
    /\ h[p].pc = "checkHasName"
    /\ LET f == [Call(h[p], "checkHasName") EXCEPT !.hasName = checkHasName(h[p].address)]
           claimAmount == CLAIM_AMOUNT_MAP[f.network]
           claimInterval == CLAIM_INTERVAL_MAP[f.network]
           rejection == Rejection(f.hasClaimed, f.hasName, f.status)
       IN  h' = [h EXCEPT ![p] =
               IF f.body.method = "faucet_getAddress"
               THEN Return(f, makeRpcResponse(RpcResult(
                        [eligible |-> IF f.hasClaimed THEN FALSE ELSE f.hasName,
                         amount |-> toHex(claimAmount),
                         interval |-> claimInterval,
                         next |-> IF f.hasClaimed
                                  THEN f.addressLastUsed + claimInterval ELSE 0,
                         status |-> f.status]), f.body.id, 200))
               ELSE IF rejection # ""
               THEN Return(f, makeRpcResponse(RpcError(-32000, rejection),
                                              f.body.id, 400))
               ELSE [f EXCEPT !.pc = "sendTransaction"]]
    /\ UNCHANGED <<ledger, now>>

\* lines 279-292: relayer.sendTransaction, which may return no transactionId
SendTransaction(p) ==
    /\ h[p].pc = "sendTransaction"
    /\ \E id \in {NoTransactionId, "0x5e7d"} :
        LET f == [Call(h[p], "sendTransaction") EXCEPT !.tx = [transactionId |-> id]]
        IN  h' = [h EXCEPT ![p] =
                IF TransactionFailed(f.tx)
                THEN Return(f, makeRpcResponse(RpcError(-32000, "Transaction failed"),
                                               f.body.id, 400))
                ELSE [f EXCEPT !.pc = "kvPut"]]
    /\ UNCHANGED <<ledger, now>>

\* lines 294-301: USED_ADDRESS_KV.put(key, Date.now().toString(), {expirationTtl})
LedgerPut(p) ==
    /\ h[p].pc = "kvPut"
    /\ LET f == h[p]
       IN  /\ ledger' = KvPut(ledger, f.key, Timestamp(now),
                              ExpirationTtl(CLAIM_INTERVAL_MAP[f.network]), now)
           /\ h' = [h EXCEPT ![p] =
                     Return(Call(f, "kv.put"),
                            makeRpcResponse(RpcResult([id |-> f.tx.transactionId]),
                                            f.body.id, 200))]
    /\ UNCHANGED now

\* the response is sent and the invocation ends
Respond(p) ==
    /\ h[p].pc = "done"
    /\ h' = [h EXCEPT ![p] = Idle]
    /\ UNCHANGED <<ledger, now>>

Next ==
    \/ \E p \in Procs : Receive(p, Requests)
    \/ \E p \in Procs : GetRelayer(p)
    \/ \E p \in Procs : GetBalance(p)
    \/ \E p \in Procs : LedgerGet(p)
    \/ \E p \in Procs : CheckHasName(p)
    \/ \E p \in Procs : SendTransaction(p)
    \/ \E p \in Procs : LedgerPut(p)
    \/ \E p \in Procs : Respond(p)
    \/ Tick
    \/ Expire

Spec == Init /\ [][Next]_vars

(***************************************************************************)
(* Concurrent invocations of the multi-network handler: two invocations    *)
(* claim for one address on one network, under either spelling.            *)
(***************************************************************************)
RaceRequests ==
    {r \in Requests :
        /\ r.method = "POST" /\ r.paths = <<"goerli">>
        /\ r.body.parsed /\ r.body.jsonrpc = "2.0"
        /\ r.body.method = "faucet_request"
        /\ r.body.params.elems \in {<<Addr("a", "b")>>, <<Addr("A", "b")>>}}

InitRace ==
    /\ h = [p \in {"h1", "h2"} |-> Idle]
    /\ ledger = {}
    /\ now = StartTime

NextRace ==
    \/ \E p \in Procs : Receive(p, RaceRequests)
    \/ \E p \in Procs : GetRelayer(p)
    \/ \E p \in Procs : GetBalance(p)
    \/ \E p \in Procs : LedgerGet(p)
    \/ \E p \in Procs : CheckHasName(p)
    \/ \E p \in Procs : SendTransaction(p)
    \/ \E p \in Procs : LedgerPut(p)
    \/ \E p \in Procs : Respond(p)
    \/ Tick
    \/ Expire

SpecRace == InitRace /\ [][NextRace]_vars

(***************************************************************************)
(* The single-network handler (src/src/helpers.ts, lines 141-300).         *)
(***************************************************************************)
\* 90 days in the code; 1000 * 1 milliseconds here
CLAIM_INTERVAL == MsPerSecond * 1

\* 0.25 ETH
CLAIM_AMOUNT == 1

\* address.match(/^0x[a-fA-F0-9]{40}$/) after the !address test
LegacyInvalid(elems) == Len(elems) = 0 \/ Len(elems[1]) = 0 \/ ~isAddress(elems[1])

\* the two ledger reads: the lower-cased address first, then the address as
\* given when it differs and the first read found nothing
LegacyLastUsed(l, address) ==
    LET addressLowerCase == toLowerCase(address)
        addressLastUsedLowerCase == KvGet(l, addressLowerCase)
    IN  IF addressLastUsedLowerCase # <<>> THEN addressLastUsedLowerCase
        ELSE IF addressLowerCase = address THEN <<>>
        ELSE KvGet(l, address)

\* hasClaimed = addressLastUsed && Date.now() - parseInt(addressLastUsed) < CLAIM_INTERVAL
LegacyHasClaimed(addressLastUsed, dateNow) ==
    addressLastUsed # <<>> /\ dateNow - parseInt(addressLastUsed) < CLAIM_INTERVAL

\* lines 147-188
LegacyReceive(p) ==
    /\ h[p].pc = "idle"
    /\ \E req \in Requests :
        LET body == req.body
            f == [h[p] EXCEPT !.network = "goerli"]
        IN  h' = [h EXCEPT ![p] =
                IF Len(req.paths) # 0 THEN Return(f, makeResponse("Not Found", 404))
                ELSE IF req.method = "OPTIONS" THEN Return(f, makeResponse("", 200))
                ELSE IF req.method # "POST"
                THEN Return(f, makeResponse("Unsupported method: " \o req.method, 405))
                ELSE IF ~body.parsed \/ body.jsonrpc = "" \/ body.method = ""
                        \/ ~body.params.truthy
                THEN Return([f EXCEPT !.body = body],
                            makeRpcResponse(RpcError(-32600, "Invalid Request"),
                                            body.id, 400))
                ELSE IF body.method \notin SUPPORTED_METHODS
                THEN Return([f EXCEPT !.body = body],
                            makeRpcResponse(RpcError(-32601, "Method not found"),
                                            body.id, 404))
                ELSE [f EXCEPT !.body = body, !.pc = "getRelayer"]]
    /\ UNCHANGED <<ledger, now>>

\* lines 189-198
LegacyGetRelayer(p) ==
    /\ h[p].pc = "getRelayer"
    /\ \E paused \in BOOLEAN :
        h' = [h EXCEPT ![p] =
                [Call(@, "getRelayer") EXCEPT
                    !.item = [address |-> RelayerAddress, paused |-> paused],
                    !.status = StatusAfterRelayer(paused),
                    !.pc = "getBalance"]]
    /\ UNCHANGED <<ledger, now>>

\* lines 200-220
LegacyGetBalance(p) ==
    /\ h[p].pc = "getBalance"
    /\ \E funds \in 0..MaxBalance :
        LET f == h[p]
            balanceResponse == [result |-> toHex(funds)]
            balance == BigInt(balanceResponse.result)
            status == StatusAfterBalance(f.status, CLAIM_AMOUNT, balance)
            g == [Call(f, "eth_getBalance") EXCEPT !.balance = balance, !.status = status]
        IN  h' = [h EXCEPT ![p] =
                IF LegacyInvalid(f.body.params.elems)
                THEN Return(g, makeRpcResponse(RpcError(-32000, "Invalid address"),
                                               f.body.id, 400))
                ELSE [g EXCEPT !.address = f.body.params.elems[1],
                               !.pc = "kvGet"]]
    /\ UNCHANGED <<ledger, now>>

\* lines 222-228
LegacyLedgerGet(p) ==
    /\ h[p].pc = "kvGet"
    /\ LET f == h[p]
           addressLastUsed == LegacyLastUsed(ledger, f.address)
       IN  h' = [h EXCEPT ![p] =
               [Call(f, "kv.get") EXCEPT
                   !.lastUsedString = addressLastUsed,
                   !.hasClaimed = LegacyHasClaimed(addressLastUsed, now),
                   !.pc = "checkHasName"]]
    /\ UNCHANGED <<ledger, now>>

\* lines 229-279; next is addressLastUsed + CLAIM_INTERVAL on a string
LegacyCheckHasName(p) ==
    /\ h[p].pc = "checkHasName"
    /\ LET f == [Call(h[p], "checkHasName") EXCEPT !.hasName = checkHasName(h[p].address)]
           rejection == Rejection(f.hasClaimed, f.hasName, f.status)
       IN  h' = [h EXCEPT ![p] =
               IF f.body.method = "faucet_getAddress"
               THEN Return(f, makeRpcResponse(RpcResult(
                        IF f.hasClaimed
                        THEN [eligible |-> FALSE,
                              nextString |-> f.lastUsedString \o toString(CLAIM_INTERVAL),
                              status |-> f.status]
                        ELSE [eligible |-> f.hasName, next |-> 0,
                              status |-> f.status]), f.body.id, 200))
               ELSE IF rejection # ""
               THEN Return(f, makeRpcResponse(RpcError(-32000, rejection),
                                              f.body.id, 400))
               ELSE [f EXCEPT !.pc = "sendTransaction"]]
    /\ UNCHANGED <<ledger, now>>

\* lines 281-294
LegacySendTransaction(p) ==
    /\ h[p].pc = "sendTransaction"
    /\ \E id \in {NoTransactionId, "0x5e7d"} :
        LET f == [Call(h[p], "sendTransaction") EXCEPT !.tx = [transactionId |-> id]]
        IN  h' = [h EXCEPT ![p] =
                IF TransactionFailed(f.tx)
                THEN Return(f, makeRpcResponse(RpcError(-32000, "Transaction failed"),
                                               f.body.id, 400))
                ELSE [f EXCEPT !.pc = "kvPut"]]
    /\ UNCHANGED <<ledger, now>>

\* lines 296-298: USED_ADDRESS_KV.put(body.params[0], Date.now().toString())
LegacyLedgerPut(p) ==
    /\ h[p].pc = "kvPut"
    /\ LET f == h[p]
       IN  /\ ledger' = KvPut(ledger, f.body.params.elems[1], Timestamp(now),
                              NoExpiration, now)
           /\ h' = [h EXCEPT ![p] =
                     Return([Call(f, "kv.put") EXCEPT !.key = f.body.params.elems[1]],
                            makeRpcResponse(RpcResult([id |-> f.tx.transactionId]),
                                            f.body.id, 200))]
    /\ UNCHANGED now

NextLegacy ==
    \/ \E p \in Procs : LegacyReceive(p)
    \/ \E p \in Procs : LegacyGetRelayer(p)
    \/ \E p \in Procs : LegacyGetBalance(p)
    \/ \E p \in Procs : LegacyLedgerGet(p)
    \/ \E p \in Procs : LegacyCheckHasName(p)
    \/ \E p \in Procs : LegacySendTransaction(p)
    \/ \E p \in Procs : LegacyLedgerPut(p)
    \/ \E p \in Procs : Respond(p)
    \/ Tick

SpecLegacy == Init /\ [][NextLegacy]_vars

(***************************************************************************)
(* Properties of the multi-network handler.                                *)
(***************************************************************************)
Called(f, name) == \E i \in DOMAIN f.calls : f.calls[i] = name

\* the frame holds a request that passed the envelope and method checks
Accepted(f) == f.pc # "idle" /\ f.body.parsed /\ f.body.jsonrpc # ""
               /\ f.body.params.truthy /\ f.body.method \in SUPPORTED_METHODS
               /\ f.network \in SUPPORTED_NETWORKS

\* "0x" and HexLen hexadecimal digits of either case
WellFormed(a) == /\ Len(a) = HexLen + 2
                 /\ SubSeq(a, 1, 2) = <<"0", "x">>
                 /\ \A i \in 1..HexLen : a[i + 2] \in HexChars

Result(f) == f.response.body.payload.result

\* C2: a faucet_status request with params [] is answered with the result
\* {status, amount, interval}, amount = hex(claimAmount), interval = claimInterval
C2_StatusAnswered ==
    \A p \in Procs :
        LET f == h[p]
        IN  (/\ Accepted(f)
             /\ f.pc = "done"
             /\ f.body.method = "faucet_status"
             /\ f.body.params.elems = <<>>)
            => /\ IsRpcResult(f.response)
               /\ DOMAIN Result(f) = {"status", "amount", "interval"}
               /\ Result(f).amount = toHex(CLAIM_AMOUNT_MAP[f.network])
               /\ Result(f).interval = CLAIM_INTERVAL_MAP[f.network]

\* C3: a faucet_status request, whatever its params, never invokes
\* sendTransaction and never writes to the ledger
C3_StatusReadOnly ==
    \A p \in Procs :
        (Accepted(h[p]) /\ h[p].body.method = "faucet_status")
        => /\ h[p].pc \notin {"sendTransaction", "kvPut"}
           /\ \A i \in DOMAIN h[p].calls :
                 h[p].calls[i] \notin {"sendTransaction", "kv.put"}

\* C7: once the balance is known, the status is "paused" whenever the relayer
\* is paused, "out of funds" only when it is not paused and claimAmount >
\* balance, and "ok" only when it is not paused and claimAmount <= balance
C7_StatusResolution ==
    \A p \in Procs :
        LET f == h[p]
            claimAmount == CLAIM_AMOUNT_MAP[f.network]
        IN  (Accepted(f) /\ Called(f, "eth_getBalance"))
            => /\ f.item.paused => f.status = "paused"
               /\ f.status = "out of funds"
                     => ~f.item.paused /\ claimAmount > f.balance
               /\ f.status = "ok"
                     => ~f.item.paused /\ claimAmount <= f.balance

C8_InvalidAddress ==
    \A p \in Procs :
        LET f == h[p]
        IN  (/\ Accepted(f)
             /\ f.body.method \in {"faucet_getAddress", "faucet_request"}
             /\ ~WellFormed(Param0(f.body)))
            => /\ f.pc \in {"getRelayer", "getBalance", "done"}
               /\ \A i \in DOMAIN f.calls :
                     f.calls[i] \in {"getRelayer", "eth_getBalance"}
               /\ f.pc = "done"
                     => /\ IsRpcError(f.response, "Invalid address")
                        /\ f.response.status = 400
                        /\ f.calls = <<"getRelayer", "eth_getBalance">>

\* a faucet_request for "not-an" was answered "Invalid address"
C8_Witness ==
    \E p \in Procs :
        /\ Accepted(h[p]) /\ h[p].body.method = "faucet_request"
        /\ h[p].body.params.elems = <<NotAnAddress>>
        /\ h[p].pc = "done"
        /\ IsRpcError(h[p].response, "Invalid address")

\* C5: an address with a ledger record of timestamp ts counts as having
\* claimed exactly when Date.now() - ts < claimInterval at the ledger read; if
\* so faucet_getAddress answers eligible = false and faucet_request answers
\* "Address has already claimed" without sendTransaction; if not,
\* faucet_getAddress answers eligible = hasName, next = 0 and faucet_request is
\* not rejected as already claimed
C5_ClaimWindow ==
    [][\A p \in Procs :
        LET f == h[p]
            g == h'[p]
            claimInterval == CLAIM_INTERVAL_MAP[f.network]
        IN  /\ (f.pc = "kvGet" /\ g.pc = "checkHasName" /\ HasKey(ledger, f.key))
               => LET ts == parseInt(Entry(ledger, f.key).value)
                  IN  g.hasClaimed <=> (now - ts < claimInterval)
            /\ (/\ f.pc = "checkHasName" /\ g.pc # "checkHasName"
                /\ f.lastUsedString # <<>>
                /\ f.body.method = "faucet_getAddress")
               => /\ g.pc = "done" /\ IsRpcResult(g.response)
                  /\ f.hasClaimed => Result(g).eligible = FALSE
                  /\ ~f.hasClaimed
                        => /\ Result(g).eligible = checkHasName(f.address)
                           /\ Result(g).next = 0
            /\ (/\ f.pc = "checkHasName" /\ g.pc # "checkHasName"
                /\ f.lastUsedString # <<>>
                /\ f.body.method = "faucet_request")
               => /\ f.hasClaimed
                        => /\ g.pc = "done"
                           /\ IsRpcError(g.response, "Address has already claimed")
                           /\ ~Called(g, "sendTransaction")
                  /\ ~f.hasClaimed
                        => \/ g.pc = "sendTransaction"
                           \/ ~IsRpcError(g.response, "Address has already claimed")
      ]_vars

\* a record exactly claimInterval old has just been read and does not count
C5_Witness ==
    \E p \in Procs :
        /\ h[p].pc = "checkHasName"
        /\ h[p].lastUsedString # <<>>
        /\ ~h[p].hasClaimed
        /\ now = h[p].addressLastUsed + CLAIM_INTERVAL_MAP[h[p].network]

\* C4: the record a successful claim writes carries the current time ts, and a
\* faucet_getAddress for the same address and network that reads the ledger
\* before ts + claimInterval answers eligible = false, next = ts + claimInterval
C4_RoundTrip ==
    [][\A p \in Procs :
        LET f == h[p]
            g == h'[p]
            claimInterval == CLAIM_INTERVAL_MAP[f.network]
        IN  /\ (f.pc = "kvPut" /\ g.pc = "done")
               => /\ HasKey(ledger', LedgerKey(f.network, getAddress(Param0(f.body))))
                  /\ parseInt(KvGet(ledger', f.key)) = now
            /\ (/\ f.pc = "kvGet" /\ g.pc = "checkHasName"
                /\ f.body.method = "faucet_getAddress"
                /\ HasKey(ledger, LedgerKey(f.network, getAddress(Param0(f.body))))
                /\ now < parseInt(KvGet(ledger, f.key)) + claimInterval)
               => /\ g.hasClaimed
                  /\ g.addressLastUsed = parseInt(KvGet(ledger, f.key))
            /\ (/\ f.pc = "checkHasName" /\ g.pc # "checkHasName"
                /\ f.body.method = "faucet_getAddress"
                /\ f.hasClaimed)
               => /\ g.pc = "done" /\ IsRpcResult(g.response)
                  /\ Result(g).eligible = FALSE
                  /\ Result(g).next = f.addressLastUsed + claimInterval
      ]_vars

\* a faucet_getAddress found the record of an earlier claim and answered
\* eligible = false with next = ts + claimInterval
C4_Witness ==
    \E p \in Procs :
        /\ h[p].pc = "done"
        /\ Accepted(h[p]) /\ h[p].body.method = "faucet_getAddress"
        /\ HasKey(ledger, h[p].key)
        /\ h[p].addressLastUsed = parseInt(KvGet(ledger, h[p].key))
        /\ IsRpcResult(h[p].response)
        /\ Result(h[p]).eligible = FALSE
        /\ Result(h[p]).next = h[p].addressLastUsed + CLAIM_INTERVAL_MAP[h[p].network]

\* C9: the ledger changes only by expiry or by the write of an invocation
\* whose sendTransaction returned a transaction id; that write stores the
\* current time under {network}/{address}, leaves every other key as it was
\* and ends in the result {id}; no faucet_getAddress invocation writes
C9_WriteDiscipline ==
    [][ledger' # ledger =>
        \/ /\ h' = h
           /\ \E e \in ledger :
                 e.expiration # NoExpiration /\ now >= e.expiration
                 /\ ledger' = ledger \ {e}
        \/ \E p \in Procs :
              LET f == h[p]
                  g == h'[p]
                  key == <<f.network, "/">> \o f.address
              IN  /\ f.pc = "kvPut" /\ g.pc = "done"
                  /\ f.calls[Len(f.calls)] = "sendTransaction"
                  /\ f.tx.transactionId # NoTransactionId
                  /\ f.body.method # "faucet_getAddress"
                  /\ g.response.status = 200 /\ IsRpcResult(g.response)
                  /\ Result(g) = [id |-> f.tx.transactionId]
                  /\ {e \in ledger' : e.key # key} = {e \in ledger : e.key # key}
                  /\ \E e \in ledger' : e.key = key /\ e.value = toString(now)
      ]_vars

\* a claim has been paid and its record is in the ledger
C9_Witness ==
    \E p \in Procs :
        /\ h[p].pc = "done"
        /\ Called(h[p], "kv.put")
        /\ IsRpcResult(h[p].response)
        /\ \E e \in ledger : e.key = h[p].key /\ e.value = toString(now)
        /\ Cardinality(ledger) > 1

\* C1: while the ledger holds a record of timestamp ts for {network}/{address},
\* sendTransaction is not invoked for that address on that network before
\* ts + claimInterval
C1_RateLimit ==
    [][\A p \in Procs :
        (h[p].pc = "sendTransaction" /\ h'[p].pc # "sendTransaction")
        => ~\E e \in ledger :
               /\ e.key = LedgerKey(h[p].network, h[p].address)
               /\ now < parseInt(e.value) + CLAIM_INTERVAL_MAP[h[p].network]
      ]_vars

\* the key is of the network, or is a key of the single-network handler
KeyOfNetwork(key, network) == key[2] = "/" => key[1] = network

\* the address a ledger key stands for, in either handler's key format
AddressOfKey(key) == IF key[2] = "/" THEN SubSeq(key, 3, Len(key)) ELSE key

\* C10: no sendTransaction is invoked for an address while the ledger holds a
\* record younger than the claim interval that was written for the same
\* address in any letter case
C10_NoDoubleClaimByCase ==
    [][\A p \in Procs :
        (h[p].pc = "sendTransaction" /\ h'[p].pc # "sendTransaction")
        => ~\E e \in ledger :
               /\ toLowerCase(AddressOfKey(e.key)) = toLowerCase(h[p].address)
               /\ KeyOfNetwork(e.key, h[p].network)
               /\ now < parseInt(e.value)
                        + (IF e.key[2] = "/" THEN CLAIM_INTERVAL_MAP[h[p].network]
                           ELSE CLAIM_INTERVAL)
      ]_vars

====
